---- MODULE Spec2Model ----
(***************************************************************************)
(* Model of the post-processing logic of the typo-detector notebook        *)
(* (notebooks/245-typo-detector/245-typo-detector.ipynb, method 2):        *)
(* token_to_words, get_typo_indexes, sentence_split and show_typos.        *)
(*                                                                         *)
(* A Python str is a sequence of one-character strings; a token is a str.  *)
(* A Python list is a sequence whose Python index i is TLA+ index i + 1.   *)
(* A Python dict is a function whose DOMAIN is its key set.                *)
(***************************************************************************)
EXTENDS Integers, Sequences, FiniteSets, TLC

VARIABLES
    sentence,        \* show_typos' argument (str)
    vocab,           \* the loaded tokenizer: longest word piece of its vocabulary
    tokens,          \* tokens (List[str])
    map_to_words,    \* map_to_words (Dict[str, int])
    result,          \* result[0] of infer: one score pair per position
    typo_indexes,    \* typo_indexes / wrong_words (List[int])
    sentence_words,  \* sentence_words (List[str])
    typos,           \* typos (List[str])
    k,               \* number of typos the replacement loop has consumed
    detected,        \* detected (str)
    pc               \* position in show_typos, "raised" after an exception

vars == << sentence, vocab, tokens, map_to_words, result, typo_indexes,
           sentence_words, typos, k, detected, pc >>

-----------------------------------------------------------------------------
(* Bounds of the explored inputs. *)

\* longest sentence given to show_typos, in characters
MaxLen == 6
\* longest word piece of a tokenizer vocabulary
MaxPiece == 2
\* most positions the classifier marks as typo in one sentence
MaxFlagged == 2
\* longest token list passed directly to token_to_words
MaxTokens == 4
\* longest sentence passed directly to sentence_split
MaxSplitLen == 4
\* longest sentence with punctuation marks given to show_typos
MaxMarkLen == 3

-----------------------------------------------------------------------------
(* Characters and strings. *)

Letters == {"t", "e"}
Space == " "
\* the characters of sentences given to show_typos
Alphabet == Letters \cup {Space}
\* the characters of sentences with punctuation marks given to show_typos
MarkAlphabet == {"t", "e", Space, ".", "-"}
\* the characters of sentences given directly to sentence_split
SplitAlphabet == {"t", "e", Space, "'", ",", "."}

\* Python: s[i:] for 0 <= i
Drop(s, n) == SubSeq(s, n + 1, Len(s))

\* Python: s[:n]
Take(s, n) == SubSeq(s, 1, n)

\* all sequences over S of length 0..n
SeqsUpTo(S, n) == UNION {[1..m -> S] : m \in 0..n}

RECURSIVE Concat(_)
\* "".join(list)
Concat(list) == IF list = <<>> THEN <<>> ELSE Head(list) \o Concat(Tail(list))

\* str.startswith
startswith(s, prefix) == Len(s) >= Len(prefix) /\ Take(s, Len(prefix)) = prefix

\* the continuation marker of token_to_words
Marker == <<"#", "#">>

IsContinuation(token) == startswith(token, Marker)

-----------------------------------------------------------------------------
(* token_to_words *)

\* faulty variant: an entry that exists is kept (dict.setdefault)
DictSetDefault(d, key, value) ==
    [x \in DOMAIN d \cup {key} |-> IF x \in DOMAIN d THEN d[x] ELSE value]

\* map_to_words[token] = word_count
DictSet(d, key, value) ==
    [x \in DOMAIN d \cup {key} |-> IF x = key THEN value ELSE d[x]]

RECURSIVE token_to_words_loop(_, _, _)
\* the for loop of token_to_words over the remaining tokens
token_to_words_loop(toks, word_count, map) ==
    IF toks = <<>> THEN map
    ELSE IF IsContinuation(Head(toks))
         THEN token_to_words_loop(Tail(toks), word_count,
                                  DictSet(map, Head(toks), word_count))
         ELSE token_to_words_loop(Tail(toks), word_count + 1,
                                  DictSet(map, Head(toks), word_count + 1))

\* faulty variant: the counter starts at 0
token_to_words_from_zero(toks) == token_to_words_loop(toks, 0, <<>>)

\* word_count = -1; map_to_words = {}; the loop; return map_to_words
token_to_words(toks) == token_to_words_loop(toks, -1, <<>>)

-----------------------------------------------------------------------------
(* get_typo_indexes *)

\* np.argmax over the two class scores: the first maximum wins
argmax(score) == IF score[2] > score[1] THEN 1 ELSE 0

\* faulty variant: result[0][1:], the row after the last token is kept
StripFirstOnly(res) == SubSeq(res, 2, Len(res))

\* faulty variant: result[0][:-2], every row is paired with the token after its own
StripLastTwo(res) == SubSeq(res, 1, Len(res) - 2)

\* result[0][1:-1]
StripSentinels(res) == SubSeq(res, 2, Len(res) - 1)

\* a returned value, or the exception that ended the call
Return(v) == [raised |-> "", value |-> v]
Raise(e) == [raised |-> e, value |-> <<>>]

\* faulty variant: the membership test is left out
InListNever(x, list) == FALSE

\* x in wrong_words
InList(x, list) == \E i \in 1..Len(list) : list[i] = x

RECURSIVE get_typo_indexes_loop(_, _, _, _, _)
\* the for loop of get_typo_indexes over the remaining rows of result_list
get_typo_indexes_loop(result_list, map, toks, c, wrong_words) ==
    IF result_list = <<>> THEN Return(wrong_words)
    ELSE IF argmax(Head(result_list)) = 1
         THEN IF c >= Len(toks) THEN Raise("IndexError")
              ELSE IF toks[c + 1] \notin DOMAIN map THEN Raise("KeyError")
              ELSE IF ~InList(map[toks[c + 1]], wrong_words)
                   THEN get_typo_indexes_loop(Tail(result_list), map, toks, c + 1,
                                              Append(wrong_words, map[toks[c + 1]]))
                   ELSE get_typo_indexes_loop(Tail(result_list), map, toks, c + 1,
                                              wrong_words)
         ELSE get_typo_indexes_loop(Tail(result_list), map, toks, c + 1, wrong_words)

\* wrong_words = []; c = 0; result_list = result[0][1:-1]; the loop
get_typo_indexes(res, map, toks) ==
    get_typo_indexes_loop(StripSentinels(res), map, toks, 0, <<>>)

-----------------------------------------------------------------------------
(* sentence_split *)

\* the character class of the pattern "([',. ])"
Delimiters == {"'", ",", ".", Space}

RECURSIVE re_split_loop(_, _, _)
\* re.split with one capturing group: the text before each delimiter, the
\* delimiter itself, and at the end the text after the last delimiter
re_split_loop(s, cur, out) ==
    IF s = <<>> THEN Append(out, cur)
    ELSE IF Head(s) \in Delimiters
         THEN re_split_loop(Tail(s), <<>>, out \o << cur, <<Head(s)>> >>)
         ELSE re_split_loop(Tail(s), Append(cur, Head(s)), out)

\* faulty variant: the pattern without its capturing group, "[',. ]"
re_split_uncaptured(s) ==
    LET r == re_split_loop(s, <<>>, <<>>)
    IN  [i \in 1..((Len(r) + 1) \div 2) |-> r[2 * i - 1]]

\* re.split("([',. ])", sentence)
re_split(s) == re_split_loop(s, <<>>, <<>>)

\* faulty variant: the filter without its second test
KeepNonSpace(x) == x # <<Space>>

\* the filter of the list comprehension: x != " " and x != ""
KeepElement(x) == x # <<Space>> /\ x # <<>>

\* splitted = re.split(...); splitted = [x for x in splitted if ...]
sentence_split(s) == SelectSeq(re_split(s), KeepElement)

-----------------------------------------------------------------------------
(* The annotation of show_typos *)

RECURSIVE replace(_, _, _)
\* str.replace(old, new) for a non-empty old: every non-overlapping
\* occurrence, found from left to right
replace(s, old, new) ==
    IF Len(s) < Len(old) THEN s
    ELSE IF startswith(s, old) THEN new \o replace(Drop(s, Len(old)), old, new)
    ELSE <<Head(s)>> \o replace(Tail(s), old, new)

OpenTag == <<"<", "i", ">">>
CloseTag == <<"<", "/", "i", ">">>

\* f'<i>{typo}</i>'
Tagged(typo) == OpenTag \o typo \o CloseTag

\* list[i] with Python's indexing: -len <= i < len, negative from the end
PyIndexOk(list, i) == -Len(list) <= i /\ i < Len(list)
PyIndex(list, i) == IF i >= 0 THEN list[i + 1] ELSE list[Len(list) + i + 1]

\* typos = [sentence_words[i] for i in typo_indexes]
select_typos(words, indexes) ==
    IF \A j \in 1..Len(indexes) : PyIndexOk(words, indexes[j])
    THEN Return([j \in 1..Len(indexes) |-> PyIndex(words, indexes[j])])
    ELSE Raise("IndexError")

-----------------------------------------------------------------------------
(* The tokenizer and the classifier: the two collaborators of show_typos.   *)
(* The tokenizer is a WordPiece tokenizer: the sentence is cut at           *)
(* whitespace, every punctuation character is a word of its own, and each   *)
(* word is cut greedily into the longest pieces of the vocabulary, every    *)
(* piece after the first carrying the '##' marker.                          *)

Punctuation == {"'", ",", ".", "-", "!", "?"}

\* the words collected so far, with the pending word when it is not empty
Flush(out, cur) == IF cur = <<>> THEN out ELSE Append(out, cur)

RECURSIVE basic_tokenize_loop(_, _, _)
basic_tokenize_loop(s, cur, out) ==
    IF s = <<>> THEN Flush(out, cur)
    ELSE IF Head(s) = Space
         THEN basic_tokenize_loop(Tail(s), <<>>, Flush(out, cur))
    ELSE IF Head(s) \in Punctuation
         THEN basic_tokenize_loop(Tail(s), <<>>, Append(Flush(out, cur), <<Head(s)>>))
    ELSE basic_tokenize_loop(Tail(s), Append(cur, Head(s)), out)

\* a vocabulary holds every piece of at most v characters
InVocab(piece, v) == Len(piece) >= 1 /\ Len(piece) <= v

\* the longest prefix of rest that is a piece of the vocabulary
LongestPiece(rest, v) ==
    CHOOSE n \in 1..Len(rest) :
        /\ InVocab(Take(rest, n), v)
        /\ \A m \in 1..Len(rest) : InVocab(Take(rest, m), v) => m <= n

RECURSIVE wordpiece(_, _, _)
wordpiece(rest, first, v) ==
    IF rest = <<>> THEN <<>>
    ELSE LET n == LongestPiece(rest, v)
             piece == Take(rest, n)
         IN  << IF first THEN piece ELSE Marker \o piece >>
             \o wordpiece(Drop(rest, n), FALSE, v)

RECURSIVE wordpiece_all(_, _)
wordpiece_all(words, v) ==
    IF words = <<>> THEN <<>>
    ELSE wordpiece(Head(words), TRUE, v) \o wordpiece_all(Tail(words), v)

\* tokenizer.tokenize(sentence)
tokenize(s, v) == wordpiece_all(basic_tokenize_loop(s, <<>>, <<>>), v)

\* the special positions the tokenizer adds around the tokens it encodes
Sentinels == 2

\* the score pairs of one position
Scores == {<<1, 0>>, <<0, 1>>, <<1, 1>>}

Flagged(res) == {i \in 1..Len(res) : argmax(res[i]) = 1}

\* infer(sentence)[0]: one decided score pair for every encoded position
InferResults(n) ==
    {r \in [1..(n + Sentinels) -> {s \in Scores : s[1] # s[2]}] :
        Cardinality(Flagged(r)) <= MaxFlagged}

-----------------------------------------------------------------------------
(* show_typos, one action per statement. *)

Init ==
    /\ sentence \in SeqsUpTo(Alphabet, MaxLen)
    /\ vocab \in 1..MaxPiece
    /\ tokens = <<>>
    /\ map_to_words = <<>>
    /\ result = <<>>
    /\ typo_indexes = <<>>
    /\ sentence_words = <<>>
    /\ typos = <<>>
    /\ k = 0
    /\ detected = <<>>
    /\ pc = "tokenize"

\* tokens = tokenizer.tokenize(sentence)
Tokenize ==
    /\ pc = "tokenize"
    /\ tokens' = tokenize(sentence, vocab)
    /\ pc' = "token_to_words"
    /\ UNCHANGED << sentence, vocab, map_to_words, result, typo_indexes,
                    sentence_words, typos, k, detected >>

\* map_to_words = token_to_words(tokens)
TokenToWords ==
    /\ pc = "token_to_words"
    /\ map_to_words' = token_to_words(tokens)
    /\ pc' = "infer"
    /\ UNCHANGED << sentence, vocab, tokens, result, typo_indexes,
                    sentence_words, typos, k, detected >>

\* result = infer(sentence)
Infer ==
    /\ pc = "infer"
    /\ \E r \in InferResults(Len(tokens)) : result' = r
    /\ pc' = "get_typo_indexes"
    /\ UNCHANGED << sentence, vocab, tokens, map_to_words, typo_indexes,
                    sentence_words, typos, k, detected >>

\* typo_indexes = get_typo_indexes(result, map_to_words, tokens)
GetTypoIndexes ==
    /\ pc = "get_typo_indexes"
    /\ LET out == get_typo_indexes(result, map_to_words, tokens)
       IN  /\ typo_indexes' = out.value
           /\ pc' = IF out.raised = "" THEN "sentence_split" ELSE "raised"
    /\ UNCHANGED << sentence, vocab, tokens, map_to_words, result,
                    sentence_words, typos, k, detected >>

\* sentence_words = sentence_split(sentence)
SentenceSplit ==
    /\ pc = "sentence_split"
    /\ sentence_words' = sentence_split(sentence)
    /\ pc' = "typos"
    /\ UNCHANGED << sentence, vocab, tokens, map_to_words, result,
                    typo_indexes, typos, k, detected >>

\* typos = [sentence_words[i] for i in typo_indexes]; detected = sentence
SelectTypos ==
    /\ pc = "typos"
    /\ LET out == select_typos(sentence_words, typo_indexes)
       IN  /\ typos' = out.value
           /\ detected' = IF out.raised = "" THEN sentence ELSE detected
           /\ pc' = IF out.raised = "" THEN "replace" ELSE "raised"
    /\ k' = 0
    /\ UNCHANGED << sentence, vocab, tokens, map_to_words, result,
                    typo_indexes, sentence_words >>

\* one iteration of: for typo in typos: detected = detected.replace(...)
ReplaceTypo ==
    /\ pc = "replace"
    /\ k < Len(typos)
    /\ detected' = replace(detected, typos[k + 1], Tagged(typos[k + 1]))
    /\ k' = k + 1
    /\ UNCHANGED << sentence, vocab, tokens, map_to_words, result,
                    typo_indexes, sentence_words, typos, pc >>

\* the loop is over: the two strings are printed and show_typos returns
PrintDetected ==
    /\ pc = "replace"
    /\ k = Len(typos)
    /\ pc' = "done"
    /\ UNCHANGED << sentence, vocab, tokens, map_to_words, result,
                    typo_indexes, sentence_words, typos, k, detected >>

Next ==
    \/ Tokenize
    \/ TokenToWords
    \/ Infer
    \/ GetTypoIndexes
    \/ SentenceSplit
    \/ SelectTypos
    \/ ReplaceTypo
    \/ PrintDetected

Spec == Init /\ [][Next]_vars

\* show_typos entered with a sentence that holds punctuation marks
InitMarks ==
    /\ sentence \in SeqsUpTo(MarkAlphabet, MaxMarkLen)
    /\ vocab \in 1..MaxPiece
    /\ tokens = <<>>
    /\ map_to_words = <<>>
    /\ result = <<>>
    /\ typo_indexes = <<>>
    /\ sentence_words = <<>>
    /\ typos = <<>>
    /\ k = 0
    /\ detected = <<>>
    /\ pc = "tokenize"

SpecMarks == InitMarks /\ [][Next]_vars

-----------------------------------------------------------------------------
(* The helper functions called on their own, on any arguments. *)

\* the token strings of the token lists passed directly
TokenVocab == { <<"t">>, <<"e">>, Marker \o <<"e">> }

InitCalls ==
    /\ \/ /\ tokens \in SeqsUpTo(TokenVocab, MaxTokens)
          /\ result \in SeqsUpTo(Scores, MaxTokens + Sentinels)
          /\ sentence = <<>>
          /\ pc = "call_token_to_words"
       \/ /\ sentence \in SeqsUpTo(SplitAlphabet, MaxSplitLen)
          /\ tokens = <<>>
          /\ result = <<>>
          /\ pc = "call_sentence_split"
    /\ vocab = 1
    /\ map_to_words = <<>>
    /\ typo_indexes = <<>>
    /\ sentence_words = <<>>
    /\ typos = <<>>
    /\ k = 0
    /\ detected = <<>>

\* token_to_words(tokens)
CallTokenToWords ==
    /\ pc = "call_token_to_words"
    /\ map_to_words' = token_to_words(tokens)
    /\ pc' = "call_get_typo_indexes"
    /\ UNCHANGED << sentence, vocab, tokens, result, typo_indexes,
                    sentence_words, typos, k, detected >>

\* get_typo_indexes(result, map_to_words, tokens)
CallGetTypoIndexes ==
    /\ pc = "call_get_typo_indexes"
    /\ LET out == get_typo_indexes(result, map_to_words, tokens)
       IN  /\ typo_indexes' = out.value
           /\ pc' = IF out.raised = "" THEN "returned" ELSE "raised"
    /\ UNCHANGED << sentence, vocab, tokens, map_to_words, result,
                    sentence_words, typos, k, detected >>

\* sentence_split(sentence)
CallSentenceSplit ==
    /\ pc = "call_sentence_split"
    /\ sentence_words' = sentence_split(sentence)
    /\ pc' = "split"
    /\ UNCHANGED << sentence, vocab, tokens, map_to_words, result,
                    typo_indexes, typos, k, detected >>

NextCalls ==
    \/ CallTokenToWords
    \/ CallGetTypoIndexes
    \/ CallSentenceSplit

SpecCalls == InitCalls /\ [][NextCalls]_vars

-----------------------------------------------------------------------------
(* Several calls of show_typos in progress at once.  In this specification   *)
(* every variable but vocab holds one value per call: the call's own local   *)
(* of that name.  vocab, the loaded tokenizer, is the module-level object    *)
(* every call reads and none writes.                                         *)

CallIds == {"A", "B"}

\* the sentences the calls are made on
CallSentences ==
    { <<>>, <<"t">>, <<"t", "e">>, <<"e", Space, "t">>, <<"t", Space, "t">> }

RECURSIVE replace_loop(_, _)
\* for typo in typos: detected = detected.replace(typo, f'<i>{typo}</i>')
replace_loop(det, typo_list) ==
    IF typo_list = <<>> THEN det
    ELSE replace_loop(replace(det, Head(typo_list), Tagged(Head(typo_list))),
                      Tail(typo_list))

\* one call of show_typos from entry to exit, given the rows infer returns
show_typos(s, v, res) ==
    LET toks == tokenize(s, v)
        map == token_to_words(toks)
        out == get_typo_indexes(res, map, toks)
        sel == select_typos(sentence_split(s), out.value)
    IN  [ map_to_words |-> map,
          typo_indexes |-> out.value,
          raised |-> IF out.raised # "" THEN out.raised ELSE sel.raised,
          detected |-> IF out.raised # "" \/ sel.raised # "" THEN <<>>
                       ELSE replace_loop(s, sel.value) ]

\* faulty variant: the name is a module-level variable, the one call "A" wrote
Global(var, c) == var["A"]

\* the value of a local name in the frame of call c
Local(var, c) == var[c]

InitInterleaved ==
    /\ sentence \in [CallIds -> CallSentences]
    /\ vocab \in 1..MaxPiece
    /\ tokens = [c \in CallIds |-> <<>>]
    /\ map_to_words = [c \in CallIds |-> <<>>]
    /\ result = [c \in CallIds |-> <<>>]
    /\ typo_indexes = [c \in CallIds |-> <<>>]
    /\ sentence_words = [c \in CallIds |-> <<>>]
    /\ typos = [c \in CallIds |-> <<>>]
    /\ k = [c \in CallIds |-> 0]
    /\ detected = [c \in CallIds |-> <<>>]
    /\ pc = [c \in CallIds |-> "tokenize"]

\* call c: tokens = tokenizer.tokenize(sentence)
TokenizeIn(c) ==
    /\ pc[c] = "tokenize"
    /\ tokens' = [tokens EXCEPT ![c] = tokenize(Local(sentence, c), vocab)]
    /\ pc' = [pc EXCEPT ![c] = "token_to_words"]
    /\ UNCHANGED << sentence, vocab, map_to_words, result, typo_indexes,
                    sentence_words, typos, k, detected >>

\* call c: map_to_words = token_to_words(tokens)
TokenToWordsIn(c) ==
    /\ pc[c] = "token_to_words"
    /\ map_to_words' = [map_to_words EXCEPT ![c] = token_to_words(Local(tokens, c))]
    /\ pc' = [pc EXCEPT ![c] = "infer"]
    /\ UNCHANGED << sentence, vocab, tokens, result, typo_indexes,
                    sentence_words, typos, k, detected >>

\* call c: result = infer(sentence)
InferIn(c) ==
    /\ pc[c] = "infer"
    /\ \E r \in InferResults(Len(tokenize(Local(sentence, c), vocab))) :
           result' = [result EXCEPT ![c] = r]
    /\ pc' = [pc EXCEPT ![c] = "get_typo_indexes"]
    /\ UNCHANGED << sentence, vocab, tokens, map_to_words, typo_indexes,
                    sentence_words, typos, k, detected >>

\* call c: typo_indexes = get_typo_indexes(result, map_to_words, tokens)
GetTypoIndexesIn(c) ==
    /\ pc[c] = "get_typo_indexes"
    /\ LET out == get_typo_indexes(Local(result, c), Local(map_to_words, c),
                                   Local(tokens, c))
       IN  /\ typo_indexes' = [typo_indexes EXCEPT ![c] = out.value]
           /\ pc' = [pc EXCEPT ![c] = IF out.raised = "" THEN "sentence_split"
                                      ELSE "raised"]
    /\ UNCHANGED << sentence, vocab, tokens, map_to_words, result,
                    sentence_words, typos, k, detected >>

\* call c: sentence_words = sentence_split(sentence)
SentenceSplitIn(c) ==
    /\ pc[c] = "sentence_split"
    /\ sentence_words' = [sentence_words EXCEPT
                              ![c] = sentence_split(Local(sentence, c))]
    /\ pc' = [pc EXCEPT ![c] = "typos"]
    /\ UNCHANGED << sentence, vocab, tokens, map_to_words, result,
                    typo_indexes, typos, k, detected >>

\* call c: typos = [sentence_words[i] for i in typo_indexes]; detected = sentence
SelectTyposIn(c) ==
    /\ pc[c] = "typos"
    /\ LET out == select_typos(Local(sentence_words, c), Local(typo_indexes, c))
       IN  /\ typos' = [typos EXCEPT ![c] = out.value]
           /\ detected' = [detected EXCEPT
                               ![c] = IF out.raised = "" THEN Local(sentence, c)
                                      ELSE detected[c]]
           /\ pc' = [pc EXCEPT ![c] = IF out.raised = "" THEN "replace"
                                      ELSE "raised"]
    /\ k' = [k EXCEPT ![c] = 0]
    /\ UNCHANGED << sentence, vocab, tokens, map_to_words, result,
                    typo_indexes, sentence_words >>

\* call c: one iteration of the replacement loop
ReplaceTypoIn(c) ==
    /\ pc[c] = "replace"
    /\ k[c] < Len(Local(typos, c))
    /\ LET typo == Local(typos, c)[k[c] + 1]
       IN  detected' = [detected EXCEPT
                            ![c] = replace(Local(detected, c), typo, Tagged(typo))]
    /\ k' = [k EXCEPT ![c] = k[c] + 1]
    /\ UNCHANGED << sentence, vocab, tokens, map_to_words, result,
                    typo_indexes, sentence_words, typos, pc >>

\* call c: the loop is over, the two strings are printed, the call returns
PrintDetectedIn(c) ==
    /\ pc[c] = "replace"
    /\ k[c] = Len(Local(typos, c))
    /\ pc' = [pc EXCEPT ![c] = "done"]
    /\ UNCHANGED << sentence, vocab, tokens, map_to_words, result,
                    typo_indexes, sentence_words, typos, k, detected >>

NextInterleaved ==
    \E c \in CallIds :
        \/ TokenizeIn(c)
        \/ TokenToWordsIn(c)
        \/ InferIn(c)
        \/ GetTypoIndexesIn(c)
        \/ SentenceSplitIn(c)
        \/ SelectTyposIn(c)
        \/ ReplaceTypoIn(c)
        \/ PrintDetectedIn(c)

SpecInterleaved == InitInterleaved /\ [][NextInterleaved]_vars

-----------------------------------------------------------------------------
(* What the properties speak about, stated without the code's operators. *)

\* token_to_words has returned (SpecCalls)
MapBuilt == pc \in {"call_get_typo_indexes", "returned", "raised"}

\* the word a token position belongs to (positions from 1): the number of
\* word-initial tokens up to and including it, counted from 0
WordAt(toks, p) ==
    Cardinality({q \in 1..p : ~IsContinuation(toks[q])}) - 1

\* the nearest non-continuation position before p, 0 when there is none
PrevWordStart(toks, p) ==
    LET S == {q \in 1..(p - 1) : ~IsContinuation(toks[q])}
    IN  IF S = {} THEN 0 ELSE CHOOSE q \in S : \A r \in S : r <= q

\* the last position holding the token string tok
LastPos(toks, tok) ==
    CHOOSE p \in 1..Len(toks) :
        toks[p] = tok /\ \A q \in 1..Len(toks) : toks[q] = tok => q <= p

\* a score pair whose larger score is the typo class
IsTypoScore(score) == score[2] > score[1]

\* the token positions (from 1) whose row of the result is a typo, the row
\* of token position p being row p + 1
FlaggedTokens ==
    {p \in 1..Len(tokens) : p + 1 < Len(result) /\ IsTypoScore(result[p + 1])}

NoDuplicates(list) ==
    \A i, j \in 1..Len(list) : list[i] = list[j] => i = j

\* the first flagged token position that the map sends to word index w
FirstFlagged(w) ==
    CHOOSE p \in FlaggedTokens :
        /\ map_to_words[tokens[p]] = w
        /\ \A q \in FlaggedTokens : map_to_words[tokens[q]] = w => p <= q

-----------------------------------------------------------------------------
(* Properties of token_to_words and get_typo_indexes (SpecCalls). *)

\* C1: every continuation token is mapped to the word index of the nearest
\* non-continuation token before it, at every position where it occurs.
C1_ContinuationSharesWordIndex ==
    MapBuilt =>
        \A p \in 1..Len(tokens) :
            (IsContinuation(tokens[p]) /\ PrevWordStart(tokens, p) # 0) =>
                map_to_words[tokens[p]] = WordAt(tokens, PrevWordStart(tokens, p))

\* C2: without continuation tokens, looking up the token at position p
\* (from 0) gives p.
C2_IndexesInInputOrder ==
    (MapBuilt /\ \A p \in 1..Len(tokens) : ~IsContinuation(tokens[p])) =>
        \A p \in 1..Len(tokens) : map_to_words[tokens[p]] = p - 1

\* C3: the list get_typo_indexes returns holds no word index twice, holds
\* exactly the word indexes of the flagged token positions, and lists them in
\* the order of their first flagged position.
C3_NoDuplicatesFirstSeenOrder ==
    pc = "returned" =>
        /\ NoDuplicates(typo_indexes)
        /\ {typo_indexes[i] : i \in 1..Len(typo_indexes)}
             = {map_to_words[tokens[p]] : p \in FlaggedTokens}
        /\ \A i, j \in 1..Len(typo_indexes) :
               i < j => FirstFlagged(typo_indexes[i]) < FirstFlagged(typo_indexes[j])

\* C3 witness: two words are reported and a third flagged token was suppressed.
C3_Witness ==
    /\ pc = "returned"
    /\ Len(typo_indexes) = 2
    /\ Cardinality(FlaggedTokens) = 3

\* C9 as stated: a first token that carries the marker is mapped to 0.
C9_LeadingContinuationIsZero ==
    (MapBuilt /\ tokens # <<>> /\ IsContinuation(tokens[1])) =>
        map_to_words[tokens[1]] = 0

\* C9 amended: a first token that carries the marker is recorded at the
\* counter's initial value -1; the returned map holds for it the word of its
\* last occurrence, which is -1 unless it occurs again after a word start.
C9_LeadingContinuationIsMinusOne ==
    (MapBuilt /\ tokens # <<>> /\ IsContinuation(tokens[1])) =>
        /\ map_to_words[tokens[1]] = WordAt(tokens, LastPos(tokens, tokens[1]))
        /\ PrevWordStart(tokens, LastPos(tokens, tokens[1])) = 0
             => map_to_words[tokens[1]] = -1

\* C9 witness: a leading continuation token, followed by a word, holds -1.
C9_Witness ==
    /\ MapBuilt
    /\ Len(tokens) >= 2
    /\ IsContinuation(tokens[1])
    /\ ~IsContinuation(tokens[2])
    /\ map_to_words[tokens[1]] = -1

\* C10: with n tokens and n + 2 rows, row j + 1 is the row of token j: the
\* call returns, a token's word is reported exactly when some token mapped to
\* the same word has a typo row, and no value of the first and last row
\* changes what is returned.
C10_SentinelsIgnored ==
    (pc \in {"returned", "raised"} /\ Len(result) = Len(tokens) + Sentinels) =>
        /\ pc = "returned"
        /\ \A p \in 1..Len(tokens) :
               (\E i \in 1..Len(typo_indexes) : typo_indexes[i] = map_to_words[tokens[p]])
                 <=> \E q \in 1..Len(tokens) :
                         /\ IsTypoScore(result[q + 1])
                         /\ map_to_words[tokens[q]] = map_to_words[tokens[p]]
        /\ \A a, b \in Scores :
               get_typo_indexes([result EXCEPT ![1] = a, ![Len(result)] = b],
                                map_to_words, tokens) = Return(typo_indexes)

\* C10 witness: both sentinel rows are typo rows, one token is flagged and
\* another is not.
C10_Witness ==
    /\ pc = "returned"
    /\ Len(tokens) = 2
    /\ Len(result) = Len(tokens) + Sentinels
    /\ IsTypoScore(result[1])
    /\ IsTypoScore(result[Len(result)])
    /\ Cardinality(FlaggedTokens) = 1
    /\ Len(typo_indexes) = 1

-----------------------------------------------------------------------------
(* Properties of sentence_split (SpecCalls). *)

\* the sentence without its spaces
WithoutSpaces(s) == SelectSeq(s, LAMBDA ch : ch # Space)

\* C7: the elements of sentence_split, concatenated in order, are the
\* sentence with its spaces removed and nothing else lost, added or moved.
C7_SplitRoundTrip ==
    pc = "split" => Concat(sentence_words) = WithoutSpaces(sentence)

\* C7 witness: a sentence with a word, a space and two delimiters was split.
C7_Witness ==
    /\ pc = "split"
    /\ sentence = <<"t", ",", Space, ".">>
    /\ sentence_words = << <<"t">>, <<",">>, <<".">> >>


-----------------------------------------------------------------------------
(* The words of a sentence, read off its characters. *)

IsWordChar(ch) == ch # Space /\ ch \notin Punctuation

\* the positions where a word or a punctuation character starts
WordStarts(s) ==
    {i \in 1..Len(s) :
        /\ s[i] # Space
        /\ \/ s[i] \in Punctuation
           \/ i = 1
           \/ ~IsWordChar(s[i - 1])}

\* the last position of the word starting at i
WordEnd(s, i) ==
    IF s[i] \in Punctuation THEN i
    ELSE CHOOSE j \in i..Len(s) :
             /\ \A m \in i..j : IsWordChar(s[m])
             /\ (j = Len(s) \/ ~IsWordChar(s[j + 1]))

WordText(s, i) == SubSeq(s, i, WordEnd(s, i))

\* the number of the word starting at i, from 0
WordNumber(s, i) == Cardinality({j \in WordStarts(s) : j < i})

\* the token positions of word number w
TokensOfWord(w) == {p \in 1..Len(tokens) : WordAt(tokens, p) = w}

\* the number of places where sub occurs in s
CountOcc(s, sub) ==
    Cardinality({i \in 1..(Len(s) - Len(sub) + 1) :
                    SubSeq(s, i, i + Len(sub) - 1) = sub})

\* the sentence with the word starting at i wrapped and nothing else changed
OnlyWrapped(s, i) ==
    Take(s, i - 1) \o Tagged(WordText(s, i)) \o Drop(s, WordEnd(s, i))

-----------------------------------------------------------------------------
(* Properties of show_typos (Spec). *)

\* C4: when exactly the tokens of one word are flagged, the annotated
\* sentence is the sentence with that word wrapped and nothing else changed.
\* Stated for the words whose text occurs at one place of the sentence only,
\* as "smple" does in "This is a smple test.", so that wrapping every
\* occurrence of the text (C5) and wrapping the word are the same thing.
C4_OneWordWrapped ==
    pc = "done" =>
        \A i \in WordStarts(sentence) :
            (/\ FlaggedTokens = TokensOfWord(WordNumber(sentence, i))
             /\ CountOcc(sentence, WordText(sentence, i)) = 1)
            => detected = OnlyWrapped(sentence, i)

\* C5: when a word occurs more than once and exactly the tokens of its first
\* occurrence are flagged, every occurrence of the word is wrapped: the
\* wrapped word occurs in the annotated sentence as often as the word occurs
\* in the sentence.
C5_EveryOccurrenceWrapped ==
    pc = "done" =>
        \A i \in WordStarts(sentence) :
            LET same == {j \in WordStarts(sentence) :
                            WordText(sentence, j) = WordText(sentence, i)}
            IN  (/\ FlaggedTokens = TokensOfWord(WordNumber(sentence, i))
                 /\ Cardinality(same) >= 2
                 /\ \A j \in same : i <= j)
                => CountOcc(detected, Tagged(WordText(sentence, i)))
                     >= Cardinality(same)

\* C6: when no token position is flagged, show_typos does not raise and the
\* annotated sentence is the sentence.
C6_NoTypoNoChange ==
    FlaggedTokens = {} =>
        /\ pc # "raised"
        /\ pc = "done" => detected = sentence

\* C6 witness: a sentence of two words was annotated with no token flagged
\* while the first sentinel row was a typo row.
C6_Witness ==
    /\ pc = "done"
    /\ Len(tokens) >= 2
    /\ FlaggedTokens = {}
    /\ IsTypoScore(result[1])
    /\ detected = sentence

\* C8: for the empty sentence no step raises, every step up to the end can
\* be taken, every intermediate list is empty and the annotated sentence is
\* the empty string.
C8_EmptySentence ==
    sentence = <<>> =>
        /\ pc # "raised"
        /\ pc # "done" => ENABLED Next
        /\ pc = "done" =>
               /\ tokens = <<>>
               /\ typo_indexes = <<>>
               /\ sentence_words = <<>>
               /\ typos = <<>>
               /\ detected = <<>>

\* C8 witness: the empty sentence was annotated although both sentinel rows
\* were typo rows.
C8_Witness ==
    /\ sentence = <<>>
    /\ pc = "done"
    /\ Len(result) = Sentinels
    /\ IsTypoScore(result[1])
    /\ IsTypoScore(result[2])
    /\ detected = <<>>

-----------------------------------------------------------------------------
(* Repeated token strings (SpecCalls). *)

\* the word indexes get_typo_indexes reported
Reported == {typo_indexes[i] : i \in 1..Len(typo_indexes)}

\* C11: the map has one entry per token string, holding the word of the
\* string's last occurrence; with n tokens and n + 2 rows get_typo_indexes
\* returns without raising and reports, for every flagged position, the word
\* of the last occurrence of its token string and nothing else.
C11_LastOccurrenceWins ==
    /\ MapBuilt =>
           /\ DOMAIN map_to_words = {tokens[p] : p \in 1..Len(tokens)}
           /\ \A p \in 1..Len(tokens) :
                  map_to_words[tokens[p]] = WordAt(tokens, LastPos(tokens, tokens[p]))
    /\ (pc \in {"returned", "raised"} /\ Len(result) = Len(tokens) + Sentinels) =>
           /\ pc = "returned"
           /\ Reported = {WordAt(tokens, LastPos(tokens, tokens[p])) : p \in FlaggedTokens}

\* C11 witness: only the first of two occurrences of a token string is
\* flagged, and the word reported is the second occurrence's, not the first's.
C11_Witness ==
    /\ pc = "returned"
    /\ Len(result) = Len(tokens) + Sentinels
    /\ \E p, q \in 1..Len(tokens) :
           /\ p < q
           /\ tokens[p] = tokens[q]
           /\ FlaggedTokens = {p}
           /\ WordAt(tokens, p) # WordAt(tokens, q)
           /\ typo_indexes = << WordAt(tokens, q) >>

-----------------------------------------------------------------------------
(* Token words against sentence_split's words (SpecMarks). *)

\* the position in the sentence where the tokenizer's word number w starts
StartOfWord(s, w) == CHOOSE i \in WordStarts(s) : WordNumber(s, i) = w

\* C12: when the tokens of the sentence are pairwise distinct, the word index
\* of every token is a position of sentence_split's list, the element there is
\* the word the token came from, and the selection of the typos does not raise.
C12_WordIndexIsSplitPosition ==
    (pc \in {"typos", "replace", "done", "raised"} /\ NoDuplicates(tokens)) =>
        /\ pc # "raised"
        /\ \A p \in 1..Len(tokens) :
               LET w == map_to_words[tokens[p]]
               IN  /\ 0 <= w
                   /\ w < Len(sentence_words)
                   /\ sentence_words[w + 1] = WordText(sentence, StartOfWord(sentence, w))
        /\ \A i \in 1..Len(typo_indexes) :
               0 <= typo_indexes[i] /\ typo_indexes[i] < Len(sentence_words)

-----------------------------------------------------------------------------
(* Calls in progress at once (SpecInterleaved). *)

\* C13: whatever the other call has done so far, the map, the typo indexes
\* and the annotated string a call holds are those of one uninterrupted run
\* of show_typos on the call's own sentence and classifier rows.
C13_CallsAreIndependent ==
    \A c \in CallIds :
        LET alone == show_typos(sentence[c], vocab, result[c])
        IN  /\ pc[c] \notin {"tokenize", "token_to_words"} =>
                   map_to_words[c] = alone.map_to_words
            /\ pc[c] \in {"sentence_split", "typos", "replace", "done"} =>
                   typo_indexes[c] = alone.typo_indexes
            /\ pc[c] = "done" => alone.raised = "" /\ detected[c] = alone.detected
            /\ pc[c] = "raised" => alone.raised # ""

\* C13 witness: call A is inside its replacement loop with one typo
\* annotated while call B, made on another sentence, has returned with a
\* typo annotated.
C13_Witness ==
    /\ pc["A"] = "replace" /\ k["A"] = 1
    /\ pc["B"] = "done" /\ typos["B"] # <<>>
    /\ sentence["A"] # sentence["B"]
    /\ detected["A"] # detected["B"]

-----------------------------------------------------------------------------
(* The markup written by the replacement loop (Spec). *)

RECURSIVE WithoutTags(_)
\* s with every "<i>" and "</i>" deleted
WithoutTags(s) ==
    IF s = <<>> THEN <<>>
    ELSE IF startswith(s, OpenTag) THEN WithoutTags(Drop(s, Len(OpenTag)))
    ELSE IF startswith(s, CloseTag) THEN WithoutTags(Drop(s, Len(CloseTag)))
    ELSE <<Head(s)>> \o WithoutTags(Tail(s))

RECURSIVE Nested(_, _)
\* some "<i>" of s opens inside a pair that is still open, depth pairs being
\* open where s starts
Nested(s, depth) ==
    IF s = <<>> THEN FALSE
    ELSE IF startswith(s, OpenTag)
         THEN depth >= 1 \/ Nested(Drop(s, Len(OpenTag)), depth + 1)
    ELSE IF startswith(s, CloseTag) THEN Nested(Drop(s, Len(CloseTag)), depth - 1)
    ELSE Nested(Tail(s), depth)

\* C14: during and after the replacement loop, deleting the markers from the
\* annotated string gives the sentence, no marker pair lies inside another,
\* and every typo the loop has processed is still there between its own pair
\* of markers.  Stated for sentences whose tokens are pairwise distinct, where
\* the typo list holds the flagged words.
C14_MarkersStayIntact ==
    (pc \in {"replace", "done"} /\ NoDuplicates(tokens)) =>
        /\ WithoutTags(detected) = sentence
        /\ ~Nested(detected, 0)
        /\ \A j \in 1..k : CountOcc(detected, Tagged(typos[j])) >= 1

====
